---- MODULE Spec2Model ----
(***************************************************************************)
(* SlideCraft server (src/server.js): five POST handlers that validate a   *)
(* JSON body, call the text / image / storage services and shape the       *)
(* reply.  A JavaScript string is a sequence of one-character strings      *)
(* ("BULLET" stands for U+2022); a JavaScript value is a tagged record.    *)
(***************************************************************************)
EXTENDS Naturals, Sequences, FiniteSets, TLC

VARIABLES
  req,             \* the request body being handled and its endpoint
  pc,              \* where the handler stands: idle, options, text, image, upload, done
  calls,           \* the upstream calls issued for the request, each with its result
  promises,        \* generate-options: the three mapped promises
  settleOrder,     \* history: the indices of calls in the order they settled
  fullDescription, \* handler local
  conceptDisplay,  \* handler local
  objectKey,       \* handler local
  timestamp,       \* handler local: what Date.now() returned
  resp             \* the reply sent, NoResponse before

vars ==
  <<req, pc, calls, promises, settleOrder, fullDescription, conceptDisplay, objectKey,
    timestamp, resp>>

(* ------------------------- JavaScript values --------------------------- *)

Undef == [t |-> "undefined"]

Str(s) == [t |-> "string", s |-> s]

Num(n) == [t |-> "number", n |-> n]

IsStr(v) == v.t = "string"

IsUndef(v) == v.t = "undefined"

\* !v is FALSE: the value is truthy
Truthy(v) ==
  CASE v.t = "undefined" -> FALSE
    [] v.t = "string" -> Len(v.s) > 0
    [] v.t = "number" -> v.n # 0

(* ------------------------- string primitives --------------------------- *)

WhiteSpace == {" ", "\n", "\t"}

Min(a, b) == IF a < b THEN a ELSE b

\* p occurs in s starting at index i (1-based)
OccursAt(s, p, i) ==
  /\ i >= 1
  /\ i + Len(p) - 1 <= Len(s)
  /\ SubSeq(s, i, i + Len(p) - 1) = p

RECURSIVE ScanFrom(_, _, _)
\* the regex engine tries each start position from the left; 0 when none matches
ScanFrom(s, p, i) ==
  IF i + Len(p) - 1 > Len(s) THEN 0
  ELSE IF OccursAt(s, p, i) THEN i
  ELSE ScanFrom(s, p, i + 1)

Contains(s, p) == \E i \in 1..(Len(s) + 1) : OccursAt(s, p, i)

RECURSIVE TrimStart(_)
TrimStart(s) ==
  IF s = <<>> THEN s
  ELSE IF Head(s) \in WhiteSpace THEN TrimStart(Tail(s))
  ELSE s

RECURSIVE TrimEnd(_)
TrimEnd(s) ==
  IF s = <<>> THEN s
  ELSE IF s[Len(s)] \in WhiteSpace THEN TrimEnd(SubSeq(s, 1, Len(s) - 1))
  ELSE s

\* String.prototype.trim
Trim(s) == TrimEnd(TrimStart(s))

\* String.prototype.substring(0, n)
Substring0(s, n) == SubSeq(s, 1, Min(n, Len(s)))

RECURSIVE Concat(_)
\* the concatenation of a sequence of strings
Concat(ss) == IF ss = <<>> THEN <<>> ELSE Head(ss) \o Concat(Tail(ss))

Concept1 ==
  <<"m","i","n","i","m","a","l","i","s","t"," ","w","i","t","h"," ","b","o","l","d"," ",
    "t","y","p","o","g","r","a","p","h","y">>

Concept2 ==
  <<"w","i","t","h"," ","d","a","t","a"," ","v","i","s","u","a","l","i","z","a","t","i",
    "o","n"," ","f","o","c","u","s">>

Concept3 ==
  <<"w","i","t","h"," ","i","c","o","n","-","h","e","a","v","y"," ","d","e","s","i","g",
    "n">>

\* the fixed style list each handler declares
concepts == <<Concept1, Concept2, Concept3>>

Marker ==
  <<"S","L","I","D","E"," ","C","O","N","C","E","P","T",":">>

HeadlineLit ==
  <<"BULLET"," ","H","e","a","d","l","i","n","e",":"," ">>

StyleLit ==
  <<".",".",".","\n","BULLET"," ","S","t","y","l","e",":"," ">>

KeyPointsLit ==
  <<"\n","BULLET"," ","K","e","y"," ","P","o","i","n","t","s",":"," ","P","r","o","f",
    "e","s","s","i","o","n","a","l"," ","p","i","t","c","h"," ","d","e","s","i","g","n">>

RefinementLit ==
  <<"\n","BULLET"," ","R","e","f","i","n","e","m","e","n","t",":"," ","A","p","p","l",
    "i","e","d">>

UndefinedLit ==
  <<"u","n","d","e","f","i","n","e","d">>

(* ------------------ concept summary (lines 152-166, 352-366) ----------- *)

RECURSIVE LazyEnd(_, _)
\* ([\s\S]*?)(?=\n\n|$): the lazy group grows one character at a time from j
\* until the lookahead holds: two newlines ahead, or the end of the input
LazyEnd(s, j) ==
  IF j > Len(s) THEN j
  ELSE IF j < Len(s) /\ s[j] = "\n" /\ s[j + 1] = "\n" THEN j
  ELSE LazyEnd(s, j + 1)

\* fullDescription.match(/SLIDE CONCEPT:([\s\S]*?)(?=\n\n|$)/)
ConceptMatch(s) ==
  LET i == ScanFrom(s, Marker, 1)
      from == i + Len(Marker)
  IN IF i = 0 THEN [found |-> FALSE, group |-> <<>>]
     ELSE [found |-> TRUE, group |-> SubSeq(s, from, LazyEnd(s, from) - 1)]

RECURSIVE RemoveBold(_)
\* conceptDisplay.replace(/\*\*/g, '')
RemoveBold(s) ==
  IF Len(s) < 2 THEN s
  ELSE IF s[1] = "*" /\ s[2] = "*" THEN RemoveBold(SubSeq(s, 3, Len(s)))
  ELSE <<s[1]>> \o RemoveBold(Tail(s))

\* ExtractConcept with the two steps swapped
ExtractConceptStripFirst(group) == Trim(RemoveBold(group))

\* conceptMatch[1].trim() followed by the removal of the bold markers
ExtractConcept(group) == RemoveBold(Trim(group))

\* concepts[selectedOption]
SelectedConcept(sel) ==
  IF sel.t = "number" /\ sel.n \in 0..2 THEN Str(concepts[sel.n + 1]) ELSE Undef

\* ${value} inside a template literal, for the values the handlers interpolate
Interpolate(v) == IF IsStr(v) THEN v.s ELSE UndefinedLit

FinalPrefixLen == 50

RefinePrefixLen == 40

Thrown == [threw |-> TRUE]

\* lines 153-166 of generate-final: the text the image call embeds and the summary
\* shown to the user; a TypeError when .match or .substring meets a non-string
FinalDescription(text, prompt, sel) ==
  LET full == IF Truthy(text) THEN text ELSE prompt
  IN IF ~IsStr(full) THEN Thrown
     ELSE LET m == ConceptMatch(full.s)
          IN IF m.found
             THEN [threw |-> FALSE, full |-> full.s, display |-> ExtractConcept(m.group)]
             ELSE IF ~IsStr(prompt) THEN Thrown
             ELSE [threw |-> FALSE, full |-> full.s,
                   display |-> HeadlineLit \o Substring0(prompt.s, FinalPrefixLen)
                               \o StyleLit \o Interpolate(SelectedConcept(sel))
                               \o KeyPointsLit]

\* lines 353-366 of refine-slide
RefinedDescription(text, prompt, sel) ==
  LET full == IF Truthy(text) THEN text ELSE prompt
  IN IF ~IsStr(full) THEN Thrown
     ELSE LET m == ConceptMatch(full.s)
          IN IF m.found
             THEN [threw |-> FALSE, full |-> full.s, display |-> ExtractConcept(m.group)]
             ELSE IF ~IsStr(prompt) THEN Thrown
             ELSE [threw |-> FALSE, full |-> full.s,
                   display |-> HeadlineLit \o Substring0(prompt.s, RefinePrefixLen)
                               \o StyleLit \o Interpolate(SelectedConcept(sel))
                               \o RefinementLit]

(* --------------- refinement suggestions (lines 259-283) ---------------- *)

Arr(a) == [t |-> "array", a |-> a]

Digits == <<"0", "1", "2", "3", "4", "5", "6", "7", "8", "9">>

DigitSet == {Digits[d] : d \in 1..Len(Digits)}

IsDigit(c) == c \in DigitSet

DigitValue(c) == (CHOOSE d \in 1..Len(Digits) : Digits[d] = c) - 1

\* characters JSON forbids unescaped inside a string literal
JsonControl == {"\n", "\t", "\\"}

Failed == [ok |-> FALSE]

RECURSIVE SkipWs(_, _)
SkipWs(s, i) == IF i <= Len(s) /\ s[i] \in WhiteSpace THEN SkipWs(s, i + 1) ELSE i

RECURSIVE StringEnd(_, _)
\* index of the quote closing the literal whose body starts at j; 0 when unterminated
\* or when the body holds a character JSON forbids
StringEnd(s, j) ==
  IF j > Len(s) \/ s[j] \in JsonControl THEN 0
  ELSE IF s[j] = "\"" THEN j
  ELSE StringEnd(s, j + 1)

RECURSIVE NumberEnd(_, _)
NumberEnd(s, j) == IF j <= Len(s) /\ IsDigit(s[j]) THEN NumberEnd(s, j + 1) ELSE j

RECURSIVE DecimalValue(_)
DecimalValue(ds) ==
  IF ds = <<>> THEN 0
  ELSE 10 * DecimalValue(SubSeq(ds, 1, Len(ds) - 1)) + DigitValue(ds[Len(ds)])

RECURSIVE ParseValue(_, _)
RECURSIVE ParseElements(_, _, _)
\* JSON.parse of one value starting at index i (no leading white space):
\* [ok, val, next], next being the index after the value
ParseValue(s, i) ==
  IF i > Len(s) THEN Failed
  ELSE IF s[i] = "\"" THEN
    LET e == StringEnd(s, i + 1)
    IN IF e = 0 THEN Failed
       ELSE [ok |-> TRUE, val |-> Str(SubSeq(s, i + 1, e - 1)), next |-> e + 1]
  ELSE IF IsDigit(s[i]) THEN
    LET e == NumberEnd(s, i)
    IN IF s[i] = "0" /\ e > i + 1 THEN Failed
       ELSE [ok |-> TRUE, val |-> Num(DecimalValue(SubSeq(s, i, e - 1))), next |-> e]
  ELSE IF s[i] = "[" THEN
    LET k == SkipWs(s, i + 1)
    IN IF k <= Len(s) /\ s[k] = "]"
       THEN [ok |-> TRUE, val |-> Arr(<<>>), next |-> k + 1]
       ELSE ParseElements(s, k, <<>>)
  ELSE Failed

\* the elements of an array from index i on, acc holding those already parsed
ParseElements(s, i, acc) ==
  LET v == ParseValue(s, i)
  IN IF ~v.ok THEN Failed
     ELSE LET k == SkipWs(s, v.next)
          IN IF k > Len(s) THEN Failed
             ELSE IF s[k] = "]"
               THEN [ok |-> TRUE, val |-> Arr(Append(acc, v.val)), next |-> k + 1]
             ELSE IF s[k] = ","
               THEN ParseElements(s, SkipWs(s, k + 1), Append(acc, v.val))
             ELSE Failed

\* JSON.parse(text): one value, white space around it, nothing else
JsonParse(s) ==
  LET v == ParseValue(s, SkipWs(s, 1))
  IN IF v.ok /\ SkipWs(s, v.next) = Len(s) + 1 THEN v ELSE Failed

RECURSIVE LastIndexOf(_, _, _)
\* the largest index <= i at which character c stands; 0 when there is none
LastIndexOf(s, c, i) ==
  IF i = 0 THEN 0 ELSE IF s[i] = c THEN i ELSE LastIndexOf(s, c, i - 1)

\* ArrayMatch with a lazy star: from the first "[" to the first "]" after it
ArrayMatchLazy(s) ==
  LET i == ScanFrom(s, <<"[">>, 1)
      j == IF i = 0 THEN 0 ELSE ScanFrom(s, <<"]">>, i)
  IN IF i = 0 \/ j = 0 THEN [found |-> FALSE, text |-> <<>>]
     ELSE [found |-> TRUE, text |-> SubSeq(s, i, j)]

\* suggestionsText.match(/\[[\s\S]*\]/): the star is greedy, so the match runs
\* from the first "[" to the last "]" of the text
ArrayMatch(s) ==
  LET i == ScanFrom(s, <<"[">>, 1)
      j == LastIndexOf(s, "]", Len(s))
  IN IF i = 0 \/ j < i THEN [found |-> FALSE, text |-> <<>>]
     ELSE [found |-> TRUE, text |-> SubSeq(s, i, j)]

FillerSuggestion ==
  <<"E","n","h","a","n","c","e"," ","t","h","e"," ","s","l","i","d","e"," ","w","i","t",
    "h"," ","m","o","r","e"," ","p","r","o","f","e","s","s","i","o","n","a","l"," ","d",
    "e","s","i","g","n"," ","e","l","e","m","e","n","t","s">>

Fallback1 ==
  <<"A","d","d"," ","m","o","r","e"," ","v","i","s","u","a","l"," ","e","l","e","m","e",
    "n","t","s"," ","a","n","d"," ","d","a","t","a"," ","v","i","s","u","a","l","i","z",
    "a","t","i","o","n","s">>

Fallback2 ==
  <<"E","m","p","h","a","s","i","z","e"," ","t","h","e"," ","u","n","i","q","u","e"," ",
    "v","a","l","u","e"," ","p","r","o","p","o","s","i","t","i","o","n"," ","m","o","r",
    "e"," ","p","r","o","m","i","n","e","n","t","l","y">>

Fallback3 ==
  <<"I","n","c","l","u","d","e"," ","s","o","c","i","a","l"," ","p","r","o","o","f"," ",
    "a","n","d"," ","c","r","e","d","i","b","i","l","i","t","y"," ","i","n","d","i","c",
    "a","t","o","r","s">>

FallbackSuggestions == <<Str(Fallback1), Str(Fallback2), Str(Fallback3)>>

SuggestionCount == 3

RECURSIVE PadSuggestions(_)
\* while (suggestions.length < 3) suggestions.push(filler)
PadSuggestions(a) ==
  IF Len(a) < SuggestionCount THEN PadSuggestions(Append(a, Str(FillerSuggestion))) ELSE a

\* lines 260-283: the parsed array (or the fallback when parsing throws, or the
\* empty list when nothing matches), padded and sliced to three
Suggestions(text) ==
  LET suggestionsText == IF Truthy(text) THEN text.s ELSE <<>>
      jsonMatch == ArrayMatch(suggestionsText)
      parsed == JsonParse(jsonMatch.text)
      suggestions == IF ~jsonMatch.found THEN <<>>
                     ELSE IF parsed.ok THEN parsed.val.a
                     ELSE FallbackSuggestions
  IN SubSeq(PadSuggestions(suggestions), 1, SuggestionCount)

(* ----------------------- object key (lines 427-434) -------------------- *)

UpperCase ==
  <<"A","B","C","D","E","F","G","H","I","J","K","L","M",
    "N","O","P","Q","R","S","T","U","V","W","X","Y","Z">>

LowerCase ==
  <<"a","b","c","d","e","f","g","h","i","j","k","l","m",
    "n","o","p","q","r","s","t","u","v","w","x","y","z">>

UpperSet == {UpperCase[k] : k \in 1..Len(UpperCase)}

LowerSet == {LowerCase[k] : k \in 1..Len(LowerCase)}

\* each upper-case letter's lower-case letter
LowerOf == [c \in UpperSet |-> LowerCase[CHOOSE k \in 1..Len(UpperCase) : UpperCase[k] = c]]

LowerChar(c) == IF c \in UpperSet THEN LowerOf[c] ELSE c

\* String.prototype.toLowerCase
ToLowerCase(s) == [k \in 1..Len(s) |-> LowerChar(s[k])]

\* the class [a-z0-9]
IsLowerAlnum(c) == c \in DigitSet \cup LowerSet

RECURSIVE SkipNonAlnum(_)
SkipNonAlnum(s) ==
  IF s # <<>> /\ ~IsLowerAlnum(Head(s)) THEN SkipNonAlnum(Tail(s)) ELSE s

RECURSIVE ReplaceNonAlnumRuns(_)
\* .replace(/[^a-z0-9]+/g, '-'): every maximal run becomes one hyphen
ReplaceNonAlnumRuns(s) ==
  IF s = <<>> THEN s
  ELSE IF IsLowerAlnum(Head(s)) THEN <<Head(s)>> \o ReplaceNonAlnumRuns(Tail(s))
  ELSE <<"-">> \o ReplaceNonAlnumRuns(SkipNonAlnum(s))

RECURSIVE DropLeadingHyphens(_)
DropLeadingHyphens(s) ==
  IF s # <<>> /\ Head(s) = "-" THEN DropLeadingHyphens(Tail(s)) ELSE s

RECURSIVE DropTrailingHyphens(_)
DropTrailingHyphens(s) ==
  IF s # <<>> /\ s[Len(s)] = "-"
  THEN DropTrailingHyphens(SubSeq(s, 1, Len(s) - 1))
  ELSE s

\* .replace(/^-+|-+$/g, '')
StripHyphens(s) == DropTrailingHyphens(DropLeadingHyphens(s))

SlugLimit == 50

\* SanitizedPrompt cut to the limit before the hyphens at the ends are dropped
SanitizedPromptCutFirst(s) ==
  StripHyphens(Substring0(ReplaceNonAlnumRuns(ToLowerCase(s)), SlugLimit))

\* lines 428-432: sanitizedPrompt
SanitizedPrompt(s) ==
  Substring0(StripHyphens(ReplaceNonAlnumRuns(ToLowerCase(s))), SlugLimit)

RECURSIVE Decimal(_)
\* ${timestamp}: the decimal digits of a non-negative integer
Decimal(n) ==
  IF n < 10 THEN <<Digits[n + 1]>> ELSE Decimal(n \div 10) \o <<Digits[(n % 10) + 1]>>

SlidesPrefix ==
  <<"s","l","i","d","e","s","/">>

PngSuffix ==
  <<".","p","n","g">>

\* line 434: objectKey
ObjectKey(prompt, now) ==
  SlidesPrefix \o SanitizedPrompt(prompt) \o <<"/">> \o Decimal(now) \o PngSuffix

DataUriPrefix ==
  <<"d","a","t","a",":","i","m","a","g","e","/","p","n","g",";","b","a","s","e","6","4",
    ",">>

\* `data:image/png;base64,${bytes}`
DataUri(bytes) == DataUriPrefix \o Interpolate(bytes)

DataImageLit ==
  <<"d","a","t","a",":","i","m","a","g","e","/">>

Base64Lit ==
  <<";","b","a","s","e","6","4",",">>

\* the class \w
IsWordChar(c) == c \in DigitSet \cup LowerSet \cup UpperSet \cup {"_"}

RECURSIVE WordEnd(_, _)
WordEnd(s, j) == IF j <= Len(s) /\ IsWordChar(s[j]) THEN WordEnd(s, j + 1) ELSE j

\* line 424: imageBase64.replace(/^data:image\/\w+;base64,/, '')
StripDataUri(s) ==
  LET w == Len(DataImageLit) + 1
      e == WordEnd(s, w)
  IN IF OccursAt(s, DataImageLit, 1) /\ e > w /\ OccursAt(s, Base64Lit, e)
     THEN SubSeq(s, e + Len(Base64Lit), Len(s))
     ELSE s

(* ------------------------------ upstream -------------------------------- *)

Pending == [status |-> "pending", data |-> Undef]

\* a fetch that resolved with response.ok, carrying the part of the body the
\* handler reads
Ok(data) == [status |-> "ok", data |-> data]

\* a fetch that resolved with a non-success status (axios: a rejected put)
NonSuccess == [status |-> "fail", data |-> Undef]

\* a fetch that rejected: no response at all
TransportError == [status |-> "neterr", data |-> Undef]

Call(kind, arg) == [kind |-> kind, arg |-> arg, result |-> Pending]

Settle(cs, i, outcome) == [cs EXCEPT ![i].result = outcome]

\* predictions of an image reply: none, one without bytes, or one with bytes
Predictions(bytes) == [predictions |-> bytes]

ImageBytes == {<<"P">>, <<"Q">>}

ImageOutcomes ==
  {Ok(Predictions(<<>>)), Ok(Predictions(<<Undef>>)), NonSuccess, TransportError}
    \cup {Ok(Predictions(<<Str(b)>>)) : b \in ImageBytes}

\* data.predictions?.[0]?.bytesBase64Encoded
FirstBytes(data) == IF Len(data.predictions) > 0 THEN data.predictions[1] ELSE Undef

TextOutcomes(texts) == {Ok(t) : t \in texts \cup {Undef}} \cup {NonSuccess, TransportError}

StorageOutcomes == {Ok(Str(<<"k">>)), NonSuccess, TransportError}

(* ------------------------------ responses ------------------------------- *)

NoResponse == [status |-> 0, body |-> [none |-> TRUE]]

BadRequest(msg) == [status |-> 400, body |-> [error |-> msg]]

ServerError(msg) == [status |-> 500, body |-> [error |-> msg]]

ServerErrorDetails(msg, details) ==
  [status |-> 500, body |-> [error |-> msg, details |-> details]]

Success(body) == [status |-> 200, body |-> body]

FetchFailed == "fetch failed"

TypeErrorMessage == "TypeError"

OptionFailed == <<"Option 1 generation failed", "Option 2 generation failed",
                  "Option 3 generation failed">>

\* error.message of what a settled fetch makes the handler throw
Rejection(outcome, msg) == IF outcome.status = "fail" THEN msg ELSE FetchFailed

(* ------------------------------ handlers -------------------------------- *)

Request(ep, prompt, sel, instruction, image) ==
  [ep |-> ep, prompt |-> prompt, selectedOption |-> sel,
   refinementInstruction |-> instruction, imageBase64 |-> image]

PendingPromise == [state |-> "pending"]

Fulfilled(v) == [state |-> "fulfilled", value |-> v]

Rejected(msg) == [state |-> "rejected", reason |-> msg]

\* res.json(...) / res.status(...).json(...): the handler's one reply
Respond(r) == resp' = r /\ pc' = "done"

\* lines 78-83: the object the i-th mapped promise resolves to
Option(i, bytes) ==
  [id |-> i, concept |-> concepts[i], imageBase64 |-> bytes, image |-> DataUri(bytes)]

\* the results gathered in the order the fetches settled
PromiseAllBySettlement(ps) == [k \in DOMAIN ps |-> ps[settleOrder'[k]].value]

\* line 86: Promise.all keeps the order of the promises it was given
PromiseAll(ps) == [k \in DOMAIN ps |-> ps[k].value]

\* lines 33-52: POST /generate-options up to its three fetches
GenerateOptionsStart(r) ==
  IF ~Truthy(r.prompt)
  THEN /\ Respond(BadRequest("Prompt is required"))
       /\ UNCHANGED <<calls, promises, fullDescription, conceptDisplay, objectKey, timestamp>>
  ELSE /\ calls' = [i \in DOMAIN concepts |-> Call("image", Str(concepts[i]))]
       /\ promises' = [i \in DOMAIN concepts |-> PendingPromise]
       /\ pc' = "options"
       /\ UNCHANGED <<resp, fullDescription, conceptDisplay, objectKey, timestamp>>

\* lines 99-146: POST /generate-final up to its text fetch
GenerateFinalStart(r) ==
  IF ~Truthy(r.prompt) \/ IsUndef(r.selectedOption)
  THEN /\ Respond(BadRequest("Prompt and selected option are required"))
       /\ UNCHANGED <<calls, promises, fullDescription, conceptDisplay, objectKey, timestamp>>
  ELSE /\ calls' = <<Call("text", r.prompt)>>
       /\ pc' = "text"
       /\ UNCHANGED <<resp, promises, fullDescription, conceptDisplay, objectKey, timestamp>>

\* lines 214-253: POST /get-refine-options up to its text fetch
GetRefineOptionsStart(r) ==
  IF ~Truthy(r.prompt) \/ IsUndef(r.selectedOption)
  THEN /\ Respond(BadRequest("Prompt and selected option are required"))
       /\ UNCHANGED <<calls, promises, fullDescription, conceptDisplay, objectKey, timestamp>>
  ELSE /\ calls' = <<Call("text", r.prompt)>>
       /\ pc' = "text"
       /\ UNCHANGED <<resp, promises, fullDescription, conceptDisplay, objectKey, timestamp>>

\* RefineSlideStart with the refinement instruction left out of the validation
RefineSlideStartUnchecked(r) ==
  IF ~Truthy(r.prompt) \/ IsUndef(r.selectedOption)
  THEN /\ Respond(BadRequest(
            "Prompt, selected option, and refinement instruction are required"))
       /\ UNCHANGED <<calls, promises, fullDescription, conceptDisplay, objectKey, timestamp>>
  ELSE /\ calls' = <<Call("text", r.prompt)>>
       /\ pc' = "text"
       /\ UNCHANGED <<resp, promises, fullDescription, conceptDisplay, objectKey, timestamp>>

\* lines 296-346: POST /refine-slide up to its text fetch; the prompt template
\* calls refinementInstruction.substring(0, 30), a TypeError on a non-string
RefineSlideStart(r) ==
  IF ~Truthy(r.prompt) \/ IsUndef(r.selectedOption) \/ ~Truthy(r.refinementInstruction)
  THEN /\ Respond(BadRequest(
            "Prompt, selected option, and refinement instruction are required"))
       /\ UNCHANGED <<calls, promises, fullDescription, conceptDisplay, objectKey, timestamp>>
  ELSE IF ~IsStr(r.refinementInstruction)
  THEN /\ Respond(ServerError(TypeErrorMessage))
       /\ UNCHANGED <<calls, promises, fullDescription, conceptDisplay, objectKey, timestamp>>
  ELSE /\ calls' = <<Call("text", r.prompt)>>
       /\ pc' = "text"
       /\ UNCHANGED <<resp, promises, fullDescription, conceptDisplay, objectKey, timestamp>>

\* lines 415-457: POST /upload up to axios.put; timestamp is what Date.now() returns;
\* prompt.toLowerCase() is a TypeError when prompt is not a string
UploadStart(r, now) ==
  IF ~Truthy(r.imageBase64)
  THEN /\ Respond(BadRequest("Image data is required"))
       /\ UNCHANGED <<calls, promises, fullDescription, conceptDisplay, objectKey, timestamp>>
  ELSE IF ~IsStr(r.prompt)
  THEN /\ Respond(ServerErrorDetails("Upload to InsForge failed", TypeErrorMessage))
       /\ UNCHANGED <<calls, promises, fullDescription, conceptDisplay, objectKey, timestamp>>
  ELSE /\ timestamp' = now
       /\ objectKey' = ObjectKey(r.prompt.s, now)
       /\ calls' = <<Call("storage", [key |-> objectKey',
                                      file |-> StripDataUri(r.imageBase64.s)])>>
       /\ pc' = "upload"
       /\ UNCHANGED <<resp, promises, fullDescription, conceptDisplay>>

\* a request arrives and its handler runs to its first await
Receive(requests, timestamps) ==
  /\ pc = "idle"
  /\ \E r \in requests, now \in timestamps :
       /\ req' = r
       /\ settleOrder' = <<>>
       /\ CASE r.ep = "generate-options" -> GenerateOptionsStart(r)
            [] r.ep = "generate-final" -> GenerateFinalStart(r)
            [] r.ep = "get-refine-options" -> GetRefineOptionsStart(r)
            [] r.ep = "refine-slide" -> RefineSlideStart(r)
            [] r.ep = "upload" -> UploadStart(r, now)

\* OptionPromise without the response.ok test: the body of a non-success reply is
\* read like any other and holds no predictions
OptionPromiseUnchecked(i, outcome) ==
  IF outcome.status = "neterr" THEN Rejected(FetchFailed)
  ELSE Fulfilled(Option(i, IF outcome.status = "ok" THEN FirstBytes(outcome.data) ELSE Undef))

\* lines 73-83: what the i-th mapped promise settles to
OptionPromise(i, outcome) ==
  IF outcome.status = "ok"
  THEN Fulfilled(Option(i, FirstBytes(outcome.data)))
  ELSE Rejected(Rejection(outcome, OptionFailed[i]))

\* lines 86-95: the i-th fetch of generate-options settles; the first rejection, or
\* the last fulfilment, settles Promise.all and the reply is sent
OptionSettles(i, outcome) ==
  /\ req.ep = "generate-options"
  /\ pc \in {"options", "done"}
  /\ i \in DOMAIN calls
  /\ calls[i].result.status = "pending"
  /\ calls' = Settle(calls, i, outcome)
  /\ settleOrder' = Append(settleOrder, i)
  /\ LET p == OptionPromise(i, outcome)
         ps == [promises EXCEPT ![i] = p]
     IN /\ promises' = ps
        /\ IF pc = "options" /\ p.state = "rejected"
           THEN Respond(ServerError(p.reason))
           ELSE IF pc = "options" /\ \A k \in DOMAIN ps : ps[k].state = "fulfilled"
           THEN Respond(Success([success |-> TRUE, options |-> PromiseAll(ps)]))
           ELSE UNCHANGED <<pc, resp>>
  /\ UNCHANGED <<req, fullDescription, conceptDisplay, objectKey, timestamp>>

\* the message each handler throws when its text fetch is not ok
TextFailedMessage(ep) ==
  CASE ep = "generate-final" -> "Text generation failed"
    [] ep = "get-refine-options" -> "Refinement suggestions generation failed"
    [] ep = "refine-slide" -> "Refined description generation failed"

\* TextFailed without the throw: the handler goes on to the image fetch
TextFailedThenImage(outcome, settled) ==
  /\ calls' = Append(settled, Call("image", req.prompt))
  /\ pc' = "image"
  /\ UNCHANGED <<resp, fullDescription, conceptDisplay>>

\* lines 148-150, 255-257, 348-350 with the catch blocks: a text fetch that is not
\* ok (or that rejected) ends the handler with a 500; nothing more is called
TextFailed(outcome, settled) ==
  /\ Respond(ServerError(Rejection(outcome, TextFailedMessage(req.ep))))
  /\ calls' = settled
  /\ UNCHANGED <<fullDescription, conceptDisplay>>

\* lines 259-288: get-refine-options replies with the three suggestions
SuggestionsReply(outcome, settled) ==
  /\ Respond(Success([success |-> TRUE, suggestions |-> Suggestions(outcome.data)]))
  /\ calls' = settled
  /\ UNCHANGED <<fullDescription, conceptDisplay>>

\* lines 152-186, 352-386: generate-final / refine-slide build the summary and
\* issue the image fetch
DescribeAndDraw(outcome, settled) ==
  LET d == IF req.ep = "generate-final"
           THEN FinalDescription(outcome.data, req.prompt, req.selectedOption)
           ELSE RefinedDescription(outcome.data, req.prompt, req.selectedOption)
  IN IF d.threw
     THEN /\ Respond(ServerError(TypeErrorMessage))
          /\ calls' = settled
          /\ UNCHANGED <<fullDescription, conceptDisplay>>
     ELSE /\ fullDescription' = d.full
          /\ conceptDisplay' = d.display
          /\ calls' = Append(settled, Call("image", Str(d.full)))
          /\ pc' = "image"
          /\ UNCHANGED resp

\* the text fetch settles and the handler runs on to its reply or to its image fetch
TextReturns(outcomes) ==
  /\ pc = "text"
  /\ \E outcome \in outcomes :
       /\ settleOrder' = Append(settleOrder, 1)
       /\ IF outcome.status # "ok" THEN TextFailed(outcome, Settle(calls, 1, outcome))
          ELSE IF req.ep = "get-refine-options"
          THEN SuggestionsReply(outcome, Settle(calls, 1, outcome))
          ELSE DescribeAndDraw(outcome, Settle(calls, 1, outcome))
  /\ UNCHANGED <<req, promises, objectKey, timestamp>>

\* lines 188-210, 388-411: the image fetch of generate-final / refine-slide settles
ImageReturns(outcome) ==
  /\ pc = "image"
  /\ calls' = Settle(calls, 2, outcome)
  /\ settleOrder' = Append(settleOrder, 2)
  /\ IF outcome.status = "neterr" THEN Respond(ServerError(FetchFailed))
     ELSE IF outcome.status = "fail"
     THEN Respond(ServerErrorDetails("Image generation failed", "errorText"))
     ELSE IF Len(outcome.data.predictions) > 0
     THEN LET imageBase64 == outcome.data.predictions[1]
              body == [success |-> TRUE, image |-> DataUri(imageBase64),
                       imageBase64 |-> imageBase64, description |-> conceptDisplay]
          IN IF req.ep = "refine-slide"
             THEN Respond(Success(body @@ [isRefinement |-> TRUE]))
             ELSE Respond(Success(body))
     ELSE Respond(ServerError("No image generated"))
  /\ UNCHANGED <<req, promises, fullDescription, conceptDisplay, objectKey, timestamp>>

\* lines 459-477: axios.put settles; a non-2xx status rejects it
UploadReturns(outcome) ==
  /\ pc = "upload"
  /\ calls' = Settle(calls, 1, outcome)
  /\ settleOrder' = Append(settleOrder, 1)
  /\ IF outcome.status = "ok"
     THEN Respond(Success([success |-> TRUE, key |-> outcome.data, fileName |-> objectKey]))
     ELSE Respond(ServerErrorDetails("Upload to InsForge failed", outcome.status))
  /\ UNCHANGED <<req, promises, fullDescription, conceptDisplay, objectKey, timestamp>>

(* ------------------------- requests and Spec ---------------------------- *)

ShortIdea == <<"H", "i">>

\* an idea longer than both headline prefixes
LongIdea == [k \in 1..(FinalPrefixLen + 2) |-> IF k > RefinePrefixLen THEN "z" ELSE "y"]

\* an idea that itself holds the marker
MarkerIdea == Marker \o <<" ", "x">>

PromptValues ==
  {Undef, Str(<<>>), Str(ShortIdea), Str(LongIdea), Str(MarkerIdea), Num(7)}

\* absent, the three style indices, and one index past the style list
OptionValues == {Undef} \cup {Num(n) : n \in 0..Len(concepts)}

InstructionValues == {Undef, Str(<<>>), Str(<<"R">>), Num(7)}

ImageValues == {Undef, Str(<<>>), Str(<<"Q">>), Str(DataUriPrefix \o <<"Q">>)}

Requests ==
  {Request("generate-options", p, Undef, Undef, Undef) : p \in PromptValues}
    \cup {Request(ep, p, o, Undef, Undef) :
            ep \in {"generate-final", "get-refine-options"},
            p \in PromptValues, o \in OptionValues}
    \cup {Request("refine-slide", p, o, i, Undef) :
            p \in PromptValues, o \in OptionValues, i \in InstructionValues}
    \cup {Request("upload", p, Undef, Undef, b) : p \in PromptValues, b \in ImageValues}

MaxTime == 2

Timestamps == 1..MaxTime

ConceptText == Marker \o <<" ", "*", "*", "H", "*", "*", "\n", "\n", "x">>

ArrayText == <<"[", "\"", "a", "\"", ",", "\"", "b", "\"", "]">>

Texts == {Str(ConceptText), Str(ArrayText), Str(<<"x">>), Str(<<>>)}

Init ==
  /\ req = Request("none", Undef, Undef, Undef, Undef)
  /\ pc = "idle"
  /\ calls = <<>>
  /\ promises = <<>>
  /\ settleOrder = <<>>
  /\ fullDescription = <<>>
  /\ conceptDisplay = <<>>
  /\ objectKey = <<>>
  /\ timestamp = 0
  /\ resp = NoResponse

Next ==
  \/ Receive(Requests, Timestamps)
  \/ \E i \in DOMAIN concepts, o \in ImageOutcomes : OptionSettles(i, o)
  \/ TextReturns(TextOutcomes(Texts))
  \/ \E o \in ImageOutcomes : ImageReturns(o)
  \/ \E o \in StorageOutcomes : UploadReturns(o)

Spec == Init /\ [][Next]_vars

(* ---------------- concept summaries over generated texts ---------------- *)

SeqsUpTo(S, n) == UNION {[1..k -> S] : k \in 0..n}

MaxSegs == 5

\* the pieces upstream texts are put together from
Segments == {Marker, <<"a">>, <<" ">>, <<"*">>, <<"\n">>, <<"\n", "\n">>}

ExtractTexts == {Str(Concat(ss)) : ss \in SeqsUpTo(Segments, MaxSegs)}

ExtractRequests ==
  {Request("generate-final", Str(ShortIdea), Num(1), Undef, Undef),
   Request("refine-slide", Str(ShortIdea), Num(1), Str(<<"R">>), Undef)}

NextExtract ==
  \/ Receive(ExtractRequests, Timestamps)
  \/ TextReturns(TextOutcomes(ExtractTexts))
  \/ \E o \in {Ok(Predictions(<<Str(<<"P">>)>>)), NonSuccess} : ImageReturns(o)

SpecExtract == Init /\ [][NextExtract]_vars

(* ------------------ suggestions over generated texts -------------------- *)

MaxEntries == 5

MaxJunk == 1

MaxRaw == 4

\* what an upstream array may hold: two strings and a number
EntryValues == {Str(<<"a">>), Str(<<"b">>), Num(1)}

JsonLiteral(v) == IF IsStr(v) THEN <<"\"">> \o v.s \o <<"\"">> ELSE Decimal(v.n)

RECURSIVE JoinLiterals(_)
JoinLiterals(es) ==
  IF es = <<>> THEN <<>>
  ELSE IF Len(es) = 1 THEN JsonLiteral(es[1])
  ELSE JsonLiteral(es[1]) \o <<",">> \o JoinLiterals(Tail(es))

\* the JSON text of an array of entries
ArrayLiteral(es) == <<"[">> \o JoinLiterals(es) \o <<"]">>

\* an ok text reply made of an array literal with text before and after it; origin
\* records how the text was put together and is read by no handler
Framed(pre, es, post) ==
  [status |-> "ok", data |-> Str(pre \o ArrayLiteral(es) \o post),
   origin |-> [pre |-> pre, entries |-> es, post |-> post]]

SuggestOutcomes ==
  {Framed(pre, es, post) :
     pre \in SeqsUpTo({"x", "["}, MaxJunk),
     es \in SeqsUpTo(EntryValues, MaxEntries),
     post \in SeqsUpTo({"x", "[", "]"}, MaxJunk)}
    \cup TextOutcomes({Str(s) : s \in SeqsUpTo({"[", "]", "\"", "a", ","}, MaxRaw)})

SuggestRequests == {Request("get-refine-options", Str(ShortIdea), Num(0), Undef, Undef)}

NextSuggest ==
  \/ Receive(SuggestRequests, Timestamps)
  \/ TextReturns(SuggestOutcomes)

SpecSuggest == Init /\ [][NextSuggest]_vars

(* -------------------- object keys over generated ideas ------------------ *)

MaxLead == 1

MaxTrail == 2

\* an upper-case letter, a digit, punctuation and a hyphen
EdgeChars == {"A", "7", "!", "-"}

\* how far below the slug limit the shortest long filler starts
FillerSlack == 4

Filler(n) == [k \in 1..n |-> "x"]

FlyingCar ==
  <<"A"," ","F","l","y","i","n","g"," ","C","a","r","!"," ","S","e","r","v","i","c","e">>

FlyingCarSlug ==
  <<"a","-","f","l","y","i","n","g","-","c","a","r","-","s","e","r","v","i","c","e">>

\* ideas that are short, or that reach the slug limit somewhere in their tail
SlugIdeas ==
  {lead \o Filler(n) \o trail :
     lead \in SeqsUpTo(EdgeChars, MaxLead),
     n \in {0} \cup ((SlugLimit - FillerSlack)..SlugLimit),
     trail \in SeqsUpTo(EdgeChars, MaxTrail)}
    \cup {FlyingCar}

SlugRequests ==
  {Request("upload", Str(idea), Undef, Undef, Str(<<"Q">>)) : idea \in SlugIdeas}

\* clock readings of one and of several digits (epoch milliseconds exceed the
\* integers of the checker)
SlugTimestamps == Timestamps \cup {1700 + MaxTime}

NextSlug ==
  \/ Receive(SlugRequests, SlugTimestamps)
  \/ UploadReturns(Ok(Str(<<"k">>)))

SpecSlug == Init /\ [][NextSlug]_vars

(* ------------------------------- claims --------------------------------- *)

Handled == pc # "idle"

\* the request lacks a field its endpoint requires
LacksRequired(r) ==
  CASE r.ep = "generate-options" -> IsUndef(r.prompt)
    [] r.ep \in {"generate-final", "get-refine-options"} ->
         IsUndef(r.prompt) \/ IsUndef(r.selectedOption)
    [] r.ep = "refine-slide" ->
         IsUndef(r.prompt) \/ IsUndef(r.selectedOption) \/ IsUndef(r.refinementInstruction)
    [] r.ep = "upload" -> IsUndef(r.imageBase64)
    [] OTHER -> FALSE

\* the request passes its endpoint's validation
Validated(r) ==
  CASE r.ep = "generate-options" -> Truthy(r.prompt)
    [] r.ep \in {"generate-final", "get-refine-options"} ->
         Truthy(r.prompt) /\ ~IsUndef(r.selectedOption)
    [] r.ep = "refine-slide" ->
         Truthy(r.prompt) /\ ~IsUndef(r.selectedOption) /\ Truthy(r.refinementInstruction)
    [] r.ep = "upload" -> Truthy(r.imageBase64)
    [] OTHER -> FALSE

\* C1: a request that lacks a required field of its endpoint is answered 400 and no
\* upstream call is ever issued for it
C1_MissingFieldIs400 ==
  (Handled /\ LacksRequired(req)) => (resp.status = 400 /\ Len(calls) = 0)

C1_Witness ==
  /\ req.ep = "refine-slide"
  /\ Truthy(req.prompt)
  /\ ~IsUndef(req.selectedOption)
  /\ IsUndef(req.refinementInstruction)
  /\ resp.status = 400

SuccessFields ==
  {"success", "options", "image", "imageBase64", "description", "suggestions", "key",
   "fileName", "isRefinement"}

\* the designated message of the i-th call of an endpoint
Designated(ep, i) ==
  CASE ep = "generate-options" -> OptionFailed[i]
    [] ep = "upload" -> "Upload to InsForge failed"
    [] ep \in {"generate-final", "refine-slide"} /\ i = 2 -> "Image generation failed"
    [] ep = "generate-final" -> "Text generation failed"
    [] ep = "get-refine-options" -> "Refinement suggestions generation failed"
    [] ep = "refine-slide" -> "Refined description generation failed"

NonSuccessCalls == {i \in DOMAIN calls : calls[i].result.status = "fail"}

\* the first call, in the order the calls settled, that did not come back ok
FirstFailure ==
  LET ks == {k \in DOMAIN settleOrder : calls[settleOrder[k]].result.status # "ok"}
  IN settleOrder[CHOOSE k \in ks : \A j \in ks : k <= j]

\* C2 as stated: once a call of a validated request has returned a non-success
\* status, the reply is a 500 carrying a designated message of the operation and
\* no success data
C2_AsStated ==
  (Validated(req) /\ NonSuccessCalls # {}) =>
     /\ resp.status = 500
     /\ \E i \in NonSuccessCalls : resp.body.error = Designated(req.ep, i)
     /\ DOMAIN resp.body \cap SuccessFields = {}

\* C2 amended: once a call of a validated request has returned a non-success
\* status, the reply is a 500 without success data, and its message is that of the
\* first call that failed: the designated message when that call returned a
\* non-success status, the transport error's message when it was rejected
C2_FirstFailureDecides ==
  (Validated(req) /\ NonSuccessCalls # {}) =>
     /\ resp.status = 500
     /\ resp.body.error =
          IF calls[FirstFailure].result.status = "fail"
          THEN Designated(req.ep, FirstFailure)
          ELSE FetchFailed
     /\ DOMAIN resp.body \cap SuccessFields = {}

C2_Witness ==
  /\ req.ep = "generate-options"
  /\ Cardinality(NonSuccessCalls) = 2
  /\ \E i \in DOMAIN calls : calls[i].result.status = "ok"
  /\ resp.status = 500

OptionsSucceeded == req.ep = "generate-options" /\ resp.status = 200

\* C3: whatever the order in which the three fetches settle, a success reply of
\* generate-options lists the options in the fixed style order, each with the id,
\* the concept and the image of the call issued for that style
C3_FixedStyleOrder ==
  OptionsSucceeded =>
     /\ Len(resp.body.options) = 3
     /\ <<resp.body.options[1].concept, resp.body.options[2].concept,
          resp.body.options[3].concept>> = <<Concept1, Concept2, Concept3>>
     /\ \A i \in 1..3 :
          /\ resp.body.options[i].id = i
          /\ calls[i].arg = Str(resp.body.options[i].concept)
          /\ resp.body.options[i].imageBase64 = FirstBytes(calls[i].result.data)
          /\ resp.body.options[i].image = DataUri(FirstBytes(calls[i].result.data))

\* the fetches settled last-to-first and returned different images
C3_Witness ==
  /\ OptionsSucceeded
  /\ settleOrder = <<3, 2, 1>>
  /\ resp.body.options[1].imageBase64 = Str(<<"P">>)
  /\ resp.body.options[3].imageBase64 = Str(<<"Q">>)

\* C5 as stated: a success reply of generate-options holds three options, each with
\* an image its fetch returned, and is sent only when all three fetches succeeded
\* with an image; a fetch that fails or yields no image rules the success reply out
C5_AsStated ==
  OptionsSucceeded =>
     /\ Len(resp.body.options) = 3
     /\ \A i \in 1..3 :
          /\ calls[i].result.status = "ok"
          /\ IsStr(FirstBytes(calls[i].result.data))
          /\ resp.body.options[i].imageBase64 = FirstBytes(calls[i].result.data)

TwoStep == req.ep \in {"generate-final", "refine-slide"}

\* the text fetch came back ok and its text (if any) holds no marker
TextLacksMarker ==
  /\ Len(calls) >= 1
  /\ calls[1].result.status = "ok"
  /\ IsStr(calls[1].result.data) => ~Contains(calls[1].result.data.s, Marker)

\* d holds the first min(limit, length) characters of the idea and no longer prefix
HoldsPrefix(d, idea, limit) ==
  /\ Contains(d, Substring0(idea, limit))
  /\ Len(idea) > limit => ~Contains(d, Substring0(idea, limit + 1))

\* C7 as stated: for a validated generate-final / refine-slide request whose
\* upstream text lacks the marker, the description returned holds the name of the
\* selected style and a prefix of the idea of at most 50 / 40 characters
C7_AsStated ==
  (TwoStep /\ Validated(req) /\ resp.status = 200 /\ TextLacksMarker) =>
     /\ \E k \in DOMAIN concepts :
          /\ req.selectedOption.n = k - 1
          /\ Contains(resp.body.description, concepts[k])
     /\ IsStr(req.prompt)
     /\ HoldsPrefix(resp.body.description, req.prompt.s,
                    IF req.ep = "generate-final" THEN FinalPrefixLen ELSE RefinePrefixLen)

\* C10: the upstream calls of a generate-final / refine-slide request are a prefix
\* of <<text call, image call>>: the image call exists only once the text call has
\* returned ok, a failed text call is followed by nothing, and no call is repeated
C10_TextThenImage ==
  TwoStep =>
     /\ Len(calls) <= 2
     /\ \A i \in DOMAIN calls : calls[i].kind = <<"text", "image">>[i]
     /\ Len(calls) = 2 => calls[1].result.status = "ok"

C10_Witness ==
  /\ req.ep = "refine-slide"
  /\ Len(calls) = 2
  /\ calls[2].result.status = "fail"
  /\ pc = "done"

SetMin(S) == CHOOSE x \in S : \A y \in S : x <= y

SetMax(S) == CHOOSE x \in S : \A y \in S : y <= x

\* the text after the first marker, up to the next empty line or the end
BlockAfterMarker(s) ==
  LET first == SetMin({i \in 1..Len(s) : OccursAt(s, Marker, i)})
      from == first + Len(Marker)
      stops == {j \in from..Len(s) : OccursAt(s, <<"\n", "\n">>, j)} \cup {Len(s) + 1}
  IN SubSeq(s, from, SetMin(stops) - 1)

\* b without the white space at its two ends
Trimmed(b) ==
  LET solid == {k \in 1..Len(b) : b[k] \notin WhiteSpace}
  IN IF solid = {} THEN <<>> ELSE SubSeq(b, SetMin(solid), SetMax(solid))

RECURSIVE StarRun(_)
StarRun(s) == IF s # <<>> /\ Head(s) = "*" THEN 1 + StarRun(Tail(s)) ELSE 0

RECURSIVE WithoutBold(_)
\* s with the pairs of stars taken out of every run of stars: a run of k stars
\* keeps k mod 2 of them, every other character stays
WithoutBold(s) ==
  IF s = <<>> THEN s
  ELSE IF Head(s) # "*" THEN <<Head(s)>> \o WithoutBold(Tail(s))
  ELSE (IF StarRun(s) % 2 = 1 THEN <<"*">> ELSE <<>>)
         \o WithoutBold(SubSeq(s, StarRun(s) + 1, Len(s)))

UpstreamText == calls[1].result.data

TextHoldsMarker ==
  /\ Len(calls) >= 1
  /\ calls[1].result.status = "ok"
  /\ IsStr(UpstreamText)
  /\ Contains(UpstreamText.s, Marker)

\* C6: when the upstream text of generate-final / refine-slide holds the marker,
\* the description returned is the text between the first marker and the next
\* empty line (or the end), trimmed, then with every "**" taken out and nothing
\* else changed; no "**" is left, and the other handler's extraction of the same
\* text gives the same description
C6_ConceptBlockVerbatim ==
  (TwoStep /\ resp.status = 200 /\ TextHoldsMarker) =>
     /\ resp.body.description = WithoutBold(Trimmed(BlockAfterMarker(UpstreamText.s)))
     /\ ~Contains(resp.body.description, <<"*", "*">>)
     /\ resp.body.description =
          (IF req.ep = "generate-final"
           THEN RefinedDescription(UpstreamText, req.prompt, req.selectedOption)
           ELSE FinalDescription(UpstreamText, req.prompt, req.selectedOption)).display

\* bold markers inside the block, an empty line and more text after it
C6_Witness ==
  /\ req.ep = "generate-final"
  /\ resp.status = 200
  /\ TextHoldsMarker
  /\ UpstreamText.s = Marker \o <<"*", "*", "\n", "\n", "a">>
  /\ resp.body.description = <<>>


SuggestionsReplied == req.ep = "get-refine-options" /\ resp.status = 200

\* C4 as stated: whatever text the upstream returns with success, the reply of
\* get-refine-options is a success whose suggestions are exactly three strings
C4_AsStated ==
  (req.ep = "get-refine-options" /\ Len(calls) = 1 /\ calls[1].result.status = "ok") =>
     /\ resp.status = 200
     /\ Len(resp.body.suggestions) = 3
     /\ \A k \in 1..3 : IsStr(resp.body.suggestions[k])

\* the reply came from a text built around an array literal of strings
FramedStrings ==
  /\ SuggestionsReplied
  /\ "origin" \in DOMAIN calls[1].result
  /\ \A k \in DOMAIN calls[1].result.origin.entries :
       IsStr(calls[1].result.origin.entries[k])

Origin == calls[1].result.origin

Has(s, c) == \E k \in DOMAIN s : s[k] = c

\* the first three entries, the filler standing in for the missing ones
FirstThree(es) ==
  [k \in 1..3 |-> IF k <= Len(es) THEN es[k] ELSE Str(FillerSuggestion)]

\* C9 as stated: when the text holds a well-formed array of strings, the
\* suggestions are the entries of that first bracketed block, cut or padded to
\* three, whatever follows the block
C9_AsStated ==
  (FramedStrings /\ ~Has(Origin.pre, "[")) =>
     resp.body.suggestions = FirstThree(Origin.entries)

\* C9 amended: the pattern matches from the first "[" to the last "]" of the text.
\* When an array of strings is the only bracketed text, the suggestions are its
\* entries cut or padded to three; when a "]" follows it, the span does not parse
\* and the hardcoded fallback is returned; the fallback is returned only when the
\* matched span fails to parse
C9_FirstToLastBracket ==
  /\ (FramedStrings /\ ~Has(Origin.pre, "[") /\ ~Has(Origin.post, "]")) =>
        resp.body.suggestions = FirstThree(Origin.entries)
  /\ (FramedStrings /\ ~Has(Origin.pre, "[") /\ Has(Origin.post, "]")) =>
        resp.body.suggestions = FallbackSuggestions
  /\ (SuggestionsReplied /\ resp.body.suggestions = FallbackSuggestions) =>
        /\ IsStr(UpstreamText)
        /\ ArrayMatch(UpstreamText.s).found
        /\ ~JsonParse(ArrayMatch(UpstreamText.s).text).ok

\* five strings, text before the array and a "[" after it: the first three come back
C9_Witness ==
  /\ FramedStrings
  /\ Origin.pre = <<"x">>
  /\ Origin.post = <<"[">>
  /\ Len(Origin.entries) = 5
  /\ resp.body.suggestions = <<Str(<<"b">>), Str(<<"a">>), Str(<<"b">>)>>

\* a letter or a digit, in either case
IsAlnum(c) == c \in DigitSet \cup LowerSet \cup UpperSet

RECURSIVE WordsOf(_, _, _)
\* the maximal runs of letters and digits of s from index i on, lower-cased; w is
\* the run being read
WordsOf(s, i, w) ==
  IF i > Len(s) THEN (IF w = <<>> THEN <<>> ELSE <<w>>)
  ELSE IF IsAlnum(s[i]) THEN WordsOf(s, i + 1, Append(w, LowerChar(s[i])))
  ELSE (IF w = <<>> THEN <<>> ELSE <<w>>) \o WordsOf(s, i + 1, <<>>)

RECURSIVE Hyphenated(_)
Hyphenated(ws) ==
  IF ws = <<>> THEN <<>>
  ELSE IF Len(ws) = 1 THEN ws[1]
  ELSE ws[1] \o <<"-">> \o Hyphenated(Tail(ws))

\* the slug the specification describes: the words of the idea joined by single
\* hyphens, cut to 50 characters
SlugOf(idea) ==
  LET joined == Hyphenated(WordsOf(idea, 1, <<>>))
  IN SubSeq(joined, 1, IF Len(joined) < 50 THEN Len(joined) ELSE 50)

UploadCalled == req.ep = "upload" /\ Len(calls) = 1

\* the digits between the last "/" of the key and its ".png"
KeyStamp(key) ==
  SubSeq(key, LastIndexOf(key, "/", Len(key)) + 1, Len(key) - Len(PngSuffix))

\* C8: the key upload sends to storage, and returns as fileName, is
\* slides/<slug>/<t>.png, slug being the idea lower-cased with every run of
\* non-alphanumerics turned into one hyphen, the hyphens at the ends dropped and
\* the result cut to 50 characters; "A Flying Car! Service" gives
\* a-flying-car-service; the key is a function of the idea and the timestamp
C8_ObjectKey ==
  UploadCalled =>
     LET key == calls[1].arg.key
         slug == SlugOf(req.prompt.s)
         stamp == KeyStamp(key)
     IN /\ OccursAt(key, SlidesPrefix \o slug \o <<"/">>, 1)
        /\ Len(key) = Len(SlidesPrefix) + Len(slug) + 1 + Len(stamp) + Len(PngSuffix)
        /\ OccursAt(key, PngSuffix, Len(key) - Len(PngSuffix) + 1)
        /\ \A k \in DOMAIN stamp : IsDigit(stamp[k])
        /\ stamp[1] # "0"
        /\ DecimalValue(stamp) = timestamp
        /\ req.prompt.s = FlyingCar => slug = FlyingCarSlug
        /\ resp.status = 200 => resp.body.fileName = key

\* an idea with a leading run to drop and more than 50 characters to keep, at a
\* clock reading of several digits
C8_Witness ==
  /\ UploadCalled
  /\ resp.status = 200
  /\ req.prompt.s = <<"!">> \o Filler(SlugLimit) \o <<"-", "A">>
  /\ timestamp > 1000
  /\ resp.body.fileName =
       SlidesPrefix \o Filler(SlugLimit) \o <<"/">> \o Decimal(timestamp) \o PngSuffix

\* an upstream call that was attempted and failed: a non-success status, a
\* transport error, or an image reply that holds no image
CallFailed(c) ==
  \/ c.result.status \in {"fail", "neterr"}
  \/ /\ c.kind = "image"
     /\ c.result.status = "ok"
     /\ ~IsStr(FirstBytes(c.result.data))

\* C11 as stated: a request that passes the required-field validation is answered
\* 500 only after an upstream call for it was issued and failed
C11_AsStated ==
  (Validated(req) /\ resp.status = 500) =>
     /\ Len(calls) > 0
     /\ \E i \in DOMAIN calls : CallFailed(calls[i])

\* the part of an object key between "slides/" and its last "/"
SlugSegment(key) ==
  SubSeq(key, Len(SlidesPrefix) + 1, LastIndexOf(key, "/", Len(key)) - 1)

\* C12 as stated: the slug segment of every object key upload builds is at most 50
\* characters long, holds only a-z, 0-9 and hyphens, and neither begins nor ends
\* with a hyphen
C12_AsStated ==
  UploadCalled =>
     LET slug == SlugSegment(calls[1].arg.key)
     IN /\ Len(slug) <= 50
        /\ \A k \in DOMAIN slug : slug[k] \in LowerSet \cup DigitSet \cup {"-"}
        /\ slug # <<>> => (slug[1] # "-" /\ slug[Len(slug)] # "-")


====
